---------------------------- MODULE Spec2Model ----------------------------
(***************************************************************************)
(* Model of BiliDown2Text (src/main.py): the selection of the episodes of  *)
(* a collection (process_collection), the progress ledger (_load_progress, *)
(* _save_progress) and the per-episode loop of process_video.              *)
(*                                                                         *)
(* The remote site, the operator at the prompt, the downloader, ffmpeg,    *)
(* the audio library, the speech model and the file system are the         *)
(* environment: each call into them is a nondeterministic choice over the  *)
(* outcomes the call can have (a value, or the exception it can raise).    *)
(***************************************************************************)
EXTENDS Integers, Sequences, FiniteSets, TLC

\* Most episodes a fetched collection holds (over all its sections).
MaxEpisodes == 3
\* Most invocations of process_video in one behaviour.
MaxRuns == 2

VARIABLES
    pc,                 \* where process_video stands
    runs,               \* invocations of process_video so far
    data,               \* the metadata process_collection was given (NoData: single video)
    choice,             \* the operator's answer to the option prompt
    tokens,             \* the operator's second answer, split at the commas
    listing,            \* the episode lines process_collection printed
    notices,            \* the notices and errors process_collection printed
    selLedger,          \* downloaded_videos of process_collection
    videos,             \* the list extract_video_info returned
    collection_id,      \* process_video's collection_id
    downloaded_videos,  \* process_video's downloaded_videos
    idx,                \* 1-based position of the loop in videos
    ledgerFile,         \* progress_<collection_id>.json, per collection id
    transcripts,        \* outputs/<id>.txt files: path -> "partial" | "complete"
    videoFiles,         \* video/<id>.mp4 files on disk
    audioFiles,         \* conv/<id>.mp3 files on disk
    attempted,          \* positions of videos the loop has started in this run
    transcribedNow,     \* video ids transcribe_audio completed in this run
    faults              \* the failures the environment produced in this run

vars == <<pc, runs, data, choice, tokens, listing, notices, selLedger, videos,
          collection_id, downloaded_videos, idx, ledgerFile, transcripts,
          videoFiles, audioFiles, attempted, transcribedNow, faults>>

-----------------------------------------------------------------------------
(* The remote data *)

\* Video ids the remote site uses.
Bvids == {"BVa", "BVb"}

\* The episode records the remote site may return.  A missing 'bvid' reads as
\* '' (episode.get('bvid', '')), a missing 'long_title' as ''.  Two episodes
\* carry the same video id under different titles.
EpisodePool ==
    { [title |-> "t", long_title |-> "",  bvid |-> "",    aid |-> 1],
      [title |-> "t", long_title |-> "",  bvid |-> "BVa", aid |-> 2],
      [title |-> "t", long_title |-> "l", bvid |-> "BVa", aid |-> 3],
      [title |-> "t", long_title |-> "",  bvid |-> "BVb", aid |-> 4] }

EpisodeLists == UNION { [1..n -> EpisodePool] : n \in 0..MaxEpisodes }

\* The ways a list of episodes is laid out in sections: one section, or two
\* (either may be empty); no section at all for the empty list.
SectionsOf(eps) ==
    { << [title |-> "s1", episodes |-> eps] >> }
    \cup { << [title |-> "s1", episodes |-> SubSeq(eps, 1, k)],
              [title |-> "s2", episodes |-> SubSeq(eps, k + 1, Len(eps))] >>
           : k \in 0..Len(eps) }
    \cup (IF eps = << >> THEN { << >> } ELSE {})

\* data: videoData.bvid and videoData.ugc_season.sections of __INITIAL_STATE__.
Metas(cids, lists) ==
    { [bvid |-> c, sections |-> s] : c \in cids, s \in UNION { SectionsOf(l) : l \in lists } }

NoData == [bvid |-> "", sections |-> << >>]

-----------------------------------------------------------------------------
(* Decimal numerals: str(index) and int(token) *)

Digit(d) ==
    CASE d = 0 -> "0" [] d = 1 -> "1" [] d = 2 -> "2" [] d = 3 -> "3" [] d = 4 -> "4"
      [] d = 5 -> "5" [] d = 6 -> "6" [] d = 7 -> "7" [] d = 8 -> "8" [] d = 9 -> "9"

RECURSIVE NatToStr(_)
NatToStr(n) == IF n < 10 THEN Digit(n) ELSE NatToStr(n \div 10) \o Digit(n % 10)

\* str(n)
IntToStr(n) == IF n < 0 THEN "-" \o NatToStr(0 - n) ELSE NatToStr(n)

\* The integers the operator may type.
TypedInts == (0 - 1)..(MaxEpisodes + 1)

\* int(tok) raises ValueError unless tok is the numeral of an integer.
IsIntLiteral(tok) == \E k \in TypedInts : IntToStr(k) = tok

\* int(tok), for a numeral.
ParseInt(tok) == CHOOSE k \in TypedInts : IntToStr(k) = tok

\* What the operator may type, split at the commas.
Tokens == { IntToStr(k) : k \in 0..MaxEpisodes } \cup Bvids \cup {""}
TokenLists ==
    { << >> } \cup { <<a>> : a \in Tokens } \cup { <<a, b>> : a, b \in Tokens }
    \cup { <<"1", "2", "3">> }


-----------------------------------------------------------------------------
(* process_collection *)

\* The order in which "for section in sections: for episode in
\* section.get('episodes', [])" visits the episodes.
RECURSIVE EpisodeOrder(_)
EpisodeOrder(sections) ==
    IF sections = << >> THEN << >>
    ELSE Head(sections).episodes \o EpisodeOrder(Tail(sections))

\* title, joined with long_title when there is one.
DisplayTitle(e) ==
    IF e.long_title # "" THEN e.title \o " - " \o e.long_title ELSE e.title

\* The dict appended to selected_videos.
VideoInfo(e) == [title |-> DisplayTitle(e), bvid |-> e.bvid, aid |-> e.aid]

\* The listing: one line "[video_index] [bvid] title" per episode; video_index
\* counts every episode.
RECURSIVE ListEpisodes(_, _)
ListEpisodes(eps, video_index) ==
    IF eps = << >> THEN << >>
    ELSE << <<video_index, Head(eps).bvid, DisplayTitle(Head(eps))>> >>
         \o ListEpisodes(Tail(eps), video_index + 1)

Listing(sections) == ListEpisodes(EpisodeOrder(sections), 1)

\* What a selection mode yields: the selected videos, the printed notices, and
\* whether an exception leaves process_collection.
Nothing == [selected |-> << >>, notices |-> << >>, raised |-> FALSE]

\* choice '1': every episode, skipping (with a notice) those in the ledger,
\* and, silently, those without a video id.
RECURSIVE SelectAllFrom(_, _, _)
SelectAllFrom(eps, downloaded, acc) ==
    IF eps = << >> THEN acc
    ELSE LET e == Head(eps) IN
         IF e.bvid \in downloaded
         THEN SelectAllFrom(Tail(eps), downloaded,
                  [acc EXCEPT !.notices = Append(@, <<"skip", e.bvid>>)])
         ELSE IF e.bvid # ""
         THEN SelectAllFrom(Tail(eps), downloaded,
                  [acc EXCEPT !.selected = Append(@, VideoInfo(e))])
         ELSE SelectAllFrom(Tail(eps), downloaded, acc)

\* SelectAll without the "if bvid in downloaded_videos" test.
SelectAllIgnoringLedger(sections, downloaded) ==
    SelectAllFrom(EpisodeOrder(sections), {}, Nothing)

SelectAll(sections, downloaded) ==
    SelectAllFrom(EpisodeOrder(sections), downloaded, Nothing)

\* MapPut as video_map.setdefault(key, info): the first entry of a key stays.
MapPutIfAbsent(map, key, info) ==
    [k \in (DOMAIN map) \cup {key} |-> IF k \in DOMAIN map THEN map[k] ELSE info]

\* video_map[key] = info
MapPut(map, key, info) ==
    [k \in (DOMAIN map) \cup {key} |-> IF k = key THEN info ELSE map[k]]

\* choice '2': video_map, keyed by str(index) and by bvid; index counts the
\* episodes that have a video id.
RECURSIVE BuildVideoMap(_, _, _)
BuildVideoMap(eps, index, video_map) ==
    IF eps = << >> THEN video_map
    ELSE LET e == Head(eps) IN
         IF e.bvid # ""
         THEN BuildVideoMap(Tail(eps), index + 1,
                  MapPut(MapPut(video_map, IntToStr(index), VideoInfo(e)),
                         e.bvid, VideoInfo(e)))
         ELSE BuildVideoMap(Tail(eps), index, video_map)

EmptyMap == [k \in {} |-> VideoInfo(CHOOSE e \in EpisodePool : TRUE)]

VideoMap(sections) == BuildVideoMap(EpisodeOrder(sections), 1, EmptyMap)

\* [x.strip() for x in selection.split(',') if x.strip()]
SelectedBvids(input) == SelectSeq(input, LAMBDA x : x # "")

RECURSIVE LookUpAll(_, _)
LookUpAll(selected_bvids, video_map) ==
    IF selected_bvids = << >> THEN << >>
    ELSE (IF Head(selected_bvids) \in DOMAIN video_map
          THEN << video_map[Head(selected_bvids)] >> ELSE << >>)
         \o LookUpAll(Tail(selected_bvids), video_map)

SelectByIds(sections, input) ==
    [Nothing EXCEPT !.selected = LookUpAll(SelectedBvids(input), VideoMap(sections))]

\* AllVideos without the "if bvid" test.
AllVideosUnfiltered(sections) ==
    LET all == EpisodeOrder(sections)
    IN  [i \in 1..Len(all) |-> VideoInfo(all[i])]

\* choice '3': all_videos holds the episodes that have a video id.
AllVideos(sections) ==
    LET withId == SelectSeq(EpisodeOrder(sections), LAMBDA e : e.bvid # "")
    IN  [i \in 1..Len(withId) |-> VideoInfo(withId[i])]

\* start, end = map(int, input('> ').strip().split(',')): ValueError when there
\* are not two values or one of them is no integer.
Raise(exception) == [raised |-> exception, start |-> 0, end |-> 0]
ParseRange(input) ==
    IF Len(input) # 2 THEN Raise("ValueError")
    ELSE IF ~IsIntLiteral(input[1]) \/ ~IsIntLiteral(input[2])
    THEN Raise("ValueError")
    ELSE [raised |-> "", start |-> ParseInt(input[1]), end |-> ParseInt(input[2])]

\* except (ValueError, IndexError)
Caught == {"ValueError", "IndexError"}

\* ValidRange without start <= end.
ValidRangeUnordered(start, end, n) == 1 <= start /\ end <= n

\* 1 <= start <= end <= len(all_videos)
ValidRange(start, end, n) == 1 <= start /\ start <= end /\ end <= n

\* for i in range(start-1, end): all_videos[i], skipping (with a notice)
\* those in the ledger.
RECURSIVE SelectSlice(_, _, _, _, _)
SelectSlice(all_videos, i, end, downloaded, acc) ==
    IF i > end THEN acc
    ELSE LET video == all_videos[i] IN
         IF video.bvid \notin downloaded
         THEN SelectSlice(all_videos, i + 1, end, downloaded,
                  [acc EXCEPT !.selected = Append(@, video)])
         ELSE SelectSlice(all_videos, i + 1, end, downloaded,
                  [acc EXCEPT !.notices = Append(@, <<"skip", video.bvid>>)])

SelectRange(sections, downloaded, input) ==
    LET parsed == ParseRange(input)
        all_videos == AllVideos(sections)
    IN  IF parsed.raised # ""
        THEN IF parsed.raised \in Caught
             THEN [Nothing EXCEPT !.notices = << <<"format_error">> >>]
             ELSE [Nothing EXCEPT !.raised = TRUE]
        ELSE IF ValidRange(parsed.start, parsed.end, Len(all_videos))
        THEN SelectSlice(all_videos, parsed.start, parsed.end, downloaded, Nothing)
        ELSE [Nothing EXCEPT !.notices = << <<"range_error", Len(all_videos)>> >>]

\* The selection process_collection returns for the operator's answers.
process_collection(sections, downloaded, ch, input) ==
    CASE ch = "1" -> SelectAll(sections, downloaded)
      [] ch = "2" -> SelectByIds(sections, input)
      [] ch = "3" -> SelectRange(sections, downloaded, input)
      [] OTHER    -> Nothing

Choices == {"1", "2", "3", "q"}

\* The second answer: asked for under choices '2' and '3' only.
InputsFor(ch, lists) == IF ch \in {"2", "3"} THEN lists ELSE { << >> }

-----------------------------------------------------------------------------
(* The progress ledger *)

\* Collection ids: videoData.bvid of the page.
Cids == Bvids

\* progress_<collection_id>.json: absent, a JSON array of ids, or a file that
\* does not parse (a write that failed after the file was truncated).
Absent == [state |-> "absent", ids |-> {}]
Corrupt == [state |-> "corrupt", ids |-> {}]
Stored(ids) == [state |-> "ok", ids |-> ids]

\* _load_progress raises inside its try (and reports) when the file exists and
\* opening, reading or parsing it fails.
LoadRaises(file, readOk) ==
    file.state # "absent" /\ (file.state = "corrupt" \/ ~readOk)

\* Whether the read of an existing file succeeds is the environment's choice.
ReadOutcomes(file) == IF file.state = "ok" THEN BOOLEAN ELSE {TRUE}

\* _load_progress: the stored set; set() when there is no file or the load raised.
load_progress(file, readOk) ==
    IF file.state = "absent" \/ LoadRaises(file, readOk) THEN {} ELSE file.ids

\* _save_progress: open(..., 'w') and json.dump; a failure is reported only.
SaveOutcomes == {"ok", "open_failed", "write_failed"}
save_progress(file, ids, outcome) ==
    CASE outcome = "ok"           -> Stored(ids)
      [] outcome = "open_failed"  -> file
      [] outcome = "write_failed" -> Corrupt

\* The set a later _load_progress can return: the persisted ledger.
Persisted(c) == IF ledgerFile[c].state = "ok" THEN ledgerFile[c].ids ELSE {}

-----------------------------------------------------------------------------
(* Paths *)

OutputPath(video) ==
    "bilibili_video/" \o video.title \o "/outputs/" \o video.bvid \o ".txt"
VideoPath(video) ==
    "bilibili_video/" \o video.title \o "/video/" \o video.bvid \o ".mp4"
AudioPath(video) ==
    "bilibili_video/" \o video.title \o "/conv/" \o video.bvid \o ".mp3"

\* transcripts with path written as status
WriteFile(files, path, status) ==
    [q \in (DOMAIN files) \cup {path} |-> IF q = path THEN status ELSE files[q]]

NoFiles == [q \in {} |-> "complete"]

-----------------------------------------------------------------------------
(* process_video *)

Stopped == {"idle", "done", "crashed", "killed"}
Running == {"check2", "loop", "extract", "split", "transcribe", "update"}

\* What a run starts from: the locals of process_video, and the record of
\* this run.
ResetRun ==
    /\ collection_id' = ""
    /\ downloaded_videos' = {}
    /\ idx' = 0
    /\ attempted' = {}
    /\ transcribedNow' = {}

\* extract_video_info on a collection page: check_collection returns
\* (True, data) and process_collection selects; process_video returns at once
\* when nothing is selected, and ends with the exception process_collection
\* lets out.
SelectCollection(from, metas, lists, reads) ==
    /\ pc \in from
    /\ runs < MaxRuns
    /\ \E d \in metas, ch \in Choices :
         \E readOk \in ReadOutcomes(ledgerFile[d.bvid]) \cap reads,
            input \in InputsFor(ch, lists) :
           LET downloaded == load_progress(ledgerFile[d.bvid], readOk)
               result == process_collection(d.sections, downloaded, ch, input)
           IN  /\ data' = d
               /\ choice' = ch
               /\ tokens' = input
               /\ listing' = Listing(d.sections)
               /\ notices' = result.notices
               /\ selLedger' = downloaded
               /\ videos' = result.selected
               /\ faults' = IF LoadRaises(ledgerFile[d.bvid], readOk)
                            THEN {"ledger_io"} ELSE {}
               /\ pc' = IF result.raised THEN "crashed"
                        ELSE IF result.selected = << >> THEN "done" ELSE "check2"
    /\ runs' = runs + 1
    /\ ResetRun
    /\ UNCHANGED <<ledgerFile, transcripts, videoFiles, audioFiles>>

\* What the view API returns for a single video.
SingleVideos == { [title |-> "t", bvid |-> "BVa", aid |-> 2] }

\* extract_video_info when check_collection does not report a collection (the
\* page is no collection, or the fetch or the parse failed): the one video of
\* the view API, or [] when the URL or the API call is bad.
SelectSingle(from) ==
    /\ pc \in from
    /\ runs < MaxRuns
    /\ \E vs \in { << >> } \cup { <<v>> : v \in SingleVideos } :
         /\ videos' = vs
         /\ pc' = IF vs = << >> THEN "done" ELSE "check2"
    /\ data' = NoData
    /\ choice' = ""
    /\ tokens' = << >>
    /\ listing' = << >>
    /\ notices' = << >>
    /\ selLedger' = {}
    /\ faults' = {}
    /\ runs' = runs + 1
    /\ ResetRun
    /\ UNCHANGED <<ledgerFile, transcripts, videoFiles, audioFiles>>

selection == <<data, choice, tokens, listing, notices, selLedger, videos>>
disk == <<transcripts, videoFiles, audioFiles>>

\* The bvid the page of the URL carries: the one the first fetch saw, when it
\* saw one.
PageIds == IF data = NoData THEN Cids ELSE {data.bvid}

\* The second check_collection of process_video, and the second load of the
\* ledger: (True, data) with the page's bvid, or (False, _) on a page that is
\* no collection and on every failure of the fetch or the parse.
CheckCollectionAgain ==
    /\ pc = "check2"
    /\ \E is_collection \in BOOLEAN, c \in PageIds :
       \E readOk \in ReadOutcomes(ledgerFile[c]) :
         LET cid == IF is_collection THEN c ELSE ""
         IN  /\ collection_id' = cid
             /\ downloaded_videos' =
                    IF cid # "" THEN load_progress(ledgerFile[cid], readOk) ELSE {}
             /\ faults' = IF cid # "" /\ LoadRaises(ledgerFile[cid], readOk)
                          THEN faults \cup {"ledger_io"} ELSE faults
    /\ idx' = 1
    /\ pc' = "loop"
    /\ UNCHANGED <<runs, selection, ledgerFile, disk, attempted, transcribedNow>>

\* The for loop is over.
LoopDone ==
    /\ pc = "loop"
    /\ idx > Len(videos)
    /\ pc' = "done"
    /\ UNCHANGED <<runs, selection, collection_id, downloaded_videos, idx,
                   ledgerFile, disk, attempted, transcribedNow, faults>>

\* The transcript file exists: continue.
SkipExisting ==
    /\ pc = "loop"
    /\ idx <= Len(videos)
    /\ OutputPath(videos[idx]) \in DOMAIN transcripts
    /\ attempted' = attempted \cup {idx}
    /\ idx' = idx + 1
    /\ UNCHANGED <<pc, runs, selection, collection_id, downloaded_videos,
                   ledgerFile, disk, transcribedNow, faults>>

\* download_video returns the path: the file was there, or the download made it.
DownloadOk ==
    /\ pc = "loop"
    /\ idx <= Len(videos)
    /\ OutputPath(videos[idx]) \notin DOMAIN transcripts
    /\ attempted' = attempted \cup {idx}
    /\ videoFiles' = videoFiles \cup {VideoPath(videos[idx])}
    /\ pc' = "extract"
    /\ UNCHANGED <<runs, selection, collection_id, downloaded_videos, idx,
                   ledgerFile, transcripts, audioFiles, transcribedNow, faults>>

\* DownloadFailed falling through to the ledger update instead of continuing.
DownloadFailedMarksProgress ==
    /\ pc = "loop"
    /\ idx <= Len(videos)
    /\ OutputPath(videos[idx]) \notin DOMAIN transcripts
    /\ VideoPath(videos[idx]) \notin videoFiles
    /\ attempted' = attempted \cup {idx}
    /\ faults' = faults \cup {"download"}
    /\ pc' = "update"
    /\ UNCHANGED <<runs, selection, collection_id, downloaded_videos, idx,
                   ledgerFile, disk, transcribedNow>>

\* download_video returns None (the API or the downloader failed, or no file
\* came out of it): continue.
DownloadFailed ==
    /\ pc = "loop"
    /\ idx <= Len(videos)
    /\ OutputPath(videos[idx]) \notin DOMAIN transcripts
    /\ VideoPath(videos[idx]) \notin videoFiles
    /\ attempted' = attempted \cup {idx}
    /\ faults' = faults \cup {"download"}
    /\ idx' = idx + 1
    /\ UNCHANGED <<pc, runs, selection, collection_id, downloaded_videos,
                   ledgerFile, disk, transcribedNow>>

\* An exception nothing catches ends process_video (and the process).
Crash(stage) ==
    /\ pc' = "crashed"
    /\ faults' = faults \cup {stage}
    /\ UNCHANGED <<runs, selection, collection_id, downloaded_videos, idx,
                   ledgerFile, attempted, transcribedNow>>

\* extract_audio returns the path: the file was there, or ffmpeg made it.
ExtractOk ==
    /\ pc = "extract"
    /\ audioFiles' = audioFiles \cup {AudioPath(videos[idx])}
    /\ pc' = "split"
    /\ UNCHANGED <<runs, selection, collection_id, downloaded_videos, idx,
                   ledgerFile, transcripts, videoFiles, attempted,
                   transcribedNow, faults>>

\* ffmpeg.run raises; extract_audio and process_video have no try around it.
ExtractRaises ==
    /\ pc = "extract"
    /\ AudioPath(videos[idx]) \notin audioFiles
    /\ Crash("extract")
    /\ UNCHANGED disk

SplitOk ==
    /\ pc = "split"
    /\ pc' = "transcribe"
    /\ UNCHANGED <<runs, selection, collection_id, downloaded_videos, idx,
                   ledgerFile, disk, attempted, transcribedNow, faults>>

\* AudioSegment.from_mp3 or export raises.
SplitRaises ==
    /\ pc = "split"
    /\ Crash("split")
    /\ UNCHANGED disk

\* transcribe_audio transcribes every chunk and writes the transcript.
TranscribeOk ==
    /\ pc = "transcribe"
    /\ transcripts' = WriteFile(transcripts, OutputPath(videos[idx]), "complete")
    /\ transcribedNow' = transcribedNow \cup {videos[idx].bvid}
    /\ pc' = "update"
    /\ UNCHANGED <<runs, selection, collection_id, downloaded_videos, idx,
                   ledgerFile, videoFiles, audioFiles, attempted, faults>>

\* model.transcribe raises (no file is opened), or the write fails after
\* open(output_path, 'w') made the file.
TranscribeRaises ==
    /\ pc = "transcribe"
    /\ Crash("transcribe")
    /\ \/ UNCHANGED disk
       \/ /\ transcripts' = WriteFile(transcripts, OutputPath(videos[idx]), "partial")
          /\ UNCHANGED <<videoFiles, audioFiles>>

\* The ledger update that ends an iteration.
UpdateProgress ==
    /\ pc = "update"
    /\ IF collection_id # ""
       THEN \E outcome \in SaveOutcomes :
              /\ downloaded_videos' = downloaded_videos \cup {videos[idx].bvid}
              /\ ledgerFile' = [ledgerFile EXCEPT ![collection_id] =
                     save_progress(@, downloaded_videos', outcome)]
              /\ faults' = IF outcome = "ok" THEN faults
                           ELSE faults \cup {"ledger_io"}
       ELSE UNCHANGED <<downloaded_videos, ledgerFile, faults>>
    /\ idx' = idx + 1
    /\ pc' = "loop"
    /\ UNCHANGED <<runs, selection, collection_id, disk, attempted,
                   transcribedNow>>

\* The process is killed.
Kill ==
    /\ pc \in Running
    /\ pc' = "killed"
    /\ UNCHANGED <<runs, selection, collection_id, downloaded_videos, idx,
                   ledgerFile, disk, attempted, transcribedNow, faults>>

-----------------------------------------------------------------------------
(* The specifications *)

\* A fresh installation.
Init ==
    /\ pc = "idle"
    /\ runs = 0
    /\ data = NoData
    /\ choice = ""
    /\ tokens = << >>
    /\ listing = << >>
    /\ notices = << >>
    /\ selLedger = {}
    /\ videos = << >>
    /\ collection_id = ""
    /\ downloaded_videos = {}
    /\ idx = 0
    /\ ledgerFile = [c \in Cids |-> Absent]
    /\ transcripts = NoFiles
    /\ videoFiles = {}
    /\ audioFiles = {}
    /\ attempted = {}
    /\ transcribedNow = {}
    /\ faults = {}

\* The collections and answers of the runs of Spec.
RunEpisodes == { e \in EpisodePool : e.long_title = "" /\ e.bvid # "" }
RunLists == { << >> } \cup { <<a>> : a \in RunEpisodes }
            \cup { <<a, b>> : a, b \in RunEpisodes }
RunMetas ==
    { [bvid |-> c, sections |-> << [title |-> "s1", episodes |-> l] >>]
      : c \in Cids, l \in RunLists }
RunTokenLists == { <<"1">>, <<"1", "2">> }

StartCollectionRun == SelectCollection(Stopped, RunMetas, RunTokenLists, BOOLEAN)
StartSingleRun == SelectSingle(Stopped)

Next ==
    \/ StartCollectionRun
    \/ StartSingleRun
    \/ CheckCollectionAgain
    \/ LoopDone
    \/ SkipExisting
    \/ DownloadOk
    \/ DownloadFailed
    \/ ExtractOk
    \/ ExtractRaises
    \/ SplitOk
    \/ SplitRaises
    \/ TranscribeOk
    \/ TranscribeRaises
    \/ UpdateProgress
    \/ Kill

Spec == Init /\ [][Next]_vars

\* The selection alone, for every collection, every ledger that loads and
\* every answer.
SelMetas == Metas({"BVa"}, EpisodeLists)

\* Init, but for the ledger file of collection BVa, which earlier runs may
\* have left on disk (ledgerFile is the 13th conjunct of Init).
InitSel ==
    /\ Init!1 /\ Init!2 /\ Init!3 /\ Init!4 /\ Init!5 /\ Init!6 /\ Init!7
    /\ Init!8 /\ Init!9 /\ Init!10 /\ Init!11 /\ Init!12
    /\ ledgerFile \in { f \in [Cids -> {Absent} \cup { Stored(s) : s \in SUBSET Bvids }] :
                          f["BVb"] = Absent /\ f["BVa"] # Stored({}) }
    /\ Init!14 /\ Init!15 /\ Init!16 /\ Init!17 /\ Init!18 /\ Init!19

PromptCollection == SelectCollection({"idle"}, SelMetas, TokenLists, {TRUE})
PromptSingle == SelectSingle({"idle"})

NextSel == PromptCollection \/ PromptSingle

SpecSel == InitSel /\ [][NextSel]_vars

-----------------------------------------------------------------------------
(* The flattened episode list, by position *)

RECURSIVE EpisodesBefore(_, _)
EpisodesBefore(sections, s) ==
    IF s <= 1 THEN 0
    ELSE EpisodesBefore(sections, s - 1) + Len(sections[s - 1].episodes)

TotalEpisodes(sections) == EpisodesBefore(sections, Len(sections) + 1)

\* The episode at global position k: section order, then episode order.
EpisodeAt(sections, k) ==
    LET s == CHOOSE j \in 1..Len(sections) :
                 /\ EpisodesBefore(sections, j) < k
                 /\ k <= EpisodesBefore(sections, j + 1)
    IN  sections[s].episodes[k - EpisodesBefore(sections, s)]

\* The flattened episode list of the run's collection, as episode records.
Flat == [k \in 1..TotalEpisodes(data.sections) |->
             VideoInfo(EpisodeAt(data.sections, k))]

\* The episodes of it that have a video id, in the same order.
Identified == SelectSeq(Flat, LAMBDA v : v.bvid # "")

NotInLedger(v) == v.bvid \notin selLedger

\* The numerals of the integers the operator may type.
Numeral == [k \in TypedInts |-> IntToStr(k)]

\* The operator typed the range s,e.
TypedRange(s, e) == Len(tokens) = 2 /\ tokens[1] = Numeral[s] /\ tokens[2] = Numeral[e]
TypedSomeRange == \E s, e \in TypedInts : TypedRange(s, e)

ErrorReported ==
    \E i \in 1..Len(notices) : notices[i][1] \in {"format_error", "range_error"}

-----------------------------------------------------------------------------
(* Selection: All *)

\* C1 (as claimed): under choice '1' the result is the flattened episode list
\* with exactly the episodes whose video id is in the ledger removed.
C1_AllRemovesLedgerOnly ==
    choice = "1" => videos = SelectSeq(Flat, NotInLedger)

\* C1 (amended): under choice '1' the result is the flattened episode list, in
\* order, with exactly the episodes removed whose video id is in the ledger or
\* that have no video id.
C1_AllRemovesLedgerAndUnidentified ==
    choice = "1" => videos = SelectSeq(Identified, NotInLedger)

\* A collection with an episode in the ledger, one without a video id and one
\* that is selected.
C1_Witness ==
    /\ choice = "1"
    /\ \E k \in 1..Len(Flat) : Flat[k].bvid \in selLedger
    /\ \E k \in 1..Len(Flat) : Flat[k].bvid = ""
    /\ videos # << >>
    /\ Len(data.sections) = 2

-----------------------------------------------------------------------------
(* Selection: Range *)

\* C2 (as claimed): a range s,e with 1 <= s <= e <= N, N the length of the
\* flattened episode list, yields the slice s..e of that list minus the
\* episodes in the ledger: e-s+1 episodes when none of them is in the ledger.
C2_RangeSlicesFlat ==
    choice = "3" =>
        LET list == Flat IN
        \A s, e \in TypedInts :
            1 <= s /\ s <= e /\ e <= Len(list) /\ TypedRange(s, e) =>
                /\ videos = SelectSeq(SubSeq(list, s, e), NotInLedger)
                /\ ((\A k \in s..e : NotInLedger(list[k])) => Len(videos) = e - s + 1)

\* C2 (amended): the same over the list of the episodes that have a video id,
\* N being its length.
C2_RangeSlicesIdentified ==
    choice = "3" =>
        LET list == Identified IN
        \A s, e \in TypedInts :
            1 <= s /\ s <= e /\ e <= Len(list) /\ TypedRange(s, e) =>
                /\ videos = SelectSeq(SubSeq(list, s, e), NotInLedger)
                /\ Len(videos) <= e - s + 1
                /\ ((\A k \in s..e : NotInLedger(list[k])) => Len(videos) = e - s + 1)

\* A valid range of more than one episode, one of them skipped for the ledger,
\* in a collection that has an episode without a video id.
C2_Witness ==
    /\ choice = "3"
    /\ \E s, e \in TypedInts :
           /\ TypedRange(s, e) /\ 1 <= s /\ s < e /\ e <= Len(Identified)
           /\ \E k \in s..e : ~NotInLedger(Identified[k])
    /\ videos # << >>
    /\ Len(Identified) < Len(Flat)

\* C3: a range with s > e, e > N or s < 1 (N the length of the flattened
\* episode list), and an answer that is no pair of integers, yield the empty
\* list and a reported error; nothing is skipped or selected, and no exception
\* leaves process_collection.
C3_InvalidRangeIsEmpty ==
    choice = "3" /\
    (~TypedSomeRange
       \/ LET n == Len(Flat) IN
          \E s, e \in TypedInts :
              (s > e \/ e > n \/ s < 1) /\ TypedRange(s, e))
    => /\ videos = << >>
       /\ ErrorReported
       /\ Len(notices) = 1
       /\ pc = "done"

\* Each way a range is invalid, on a collection with episodes, and a
\* malformed answer.
C3_Witness ==
    /\ choice = "3"
    /\ Len(Identified) >= 2
    /\ \/ TypedRange(2, 1)
       \/ TypedRange(0, 1)
       \/ TypedRange(1, Len(Flat) + 1)
       \/ TypedRange(1, Len(Identified) + 1)
    /\ pc = "done"

C3_WitnessMalformed ==
    /\ choice = "3"
    /\ Len(Identified) >= 2
    /\ ~TypedSomeRange
    /\ pc = "done"

-----------------------------------------------------------------------------
(* Selection: ByIds *)

\* C4 (as claimed): for every episode that has a video id, the token of its
\* 1-based global index and the token of its video id select the same episode
\* record.
C4_IndexAndIdSelectSameEpisode ==
    choice = "2" =>
        LET list == Flat IN
        \A k \in 1..Len(list) :
            list[k].bvid # "" /\ tokens = <<Numeral[k], list[k].bvid>> =>
                videos = <<list[k], list[k]>>

\* The positions in list of the episodes with video id b.
Carrying(list, b) == { j \in 1..Len(list) : list[j].bvid = b }

\* The tokens ByIds knows: the indices of Identified and its video ids.
Recognized(t) ==
    LET list == Identified
    IN  \/ \E k \in 1..Len(list) : t = Numeral[k]
        \/ Carrying(list, t) # {}

\* C4 (amended): for every episode that has a video id, the token of its
\* 1-based index among the episodes that have a video id selects its record,
\* and the token of its video id selects the record of the last episode that
\* carries that video id: the same record when no other episode carries it;
\* every other token is dropped without error.
C4_IndexAndIdSelectSameId ==
    choice = "2" =>
        LET list == Identified IN
        /\ \A k \in 1..Len(list) :
               tokens = <<Numeral[k], list[k].bvid>> =>
                   LET carrying == Carrying(list, list[k].bvid) IN
                   /\ Len(videos) = 2
                   /\ videos[1] = list[k]
                   /\ videos[2].bvid = list[k].bvid
                   /\ \A j \in carrying :
                          (\A i \in carrying : i <= j) => videos[2] = list[j]
                   /\ (carrying = {k} => videos[2] = list[k])
        /\ Len(videos) = Len(SelectSeq(tokens, Recognized))
        /\ pc # "crashed"

\* An index and a video id that is carried twice, and a token that is dropped.
C4_Witness ==
    /\ choice = "2"
    /\ \E k \in 1..Len(Identified) :
           /\ tokens = <<Numeral[k], Identified[k].bvid>>
           /\ Cardinality(Carrying(Identified, Identified[k].bvid)) = 2
    /\ Len(videos) = 2

C4_WitnessDropped ==
    /\ choice = "2"
    /\ Len(tokens) = 2
    /\ Len(videos) = 1
    /\ ~Recognized(tokens[1])

-----------------------------------------------------------------------------
(* The listing *)

\* C9: the index printed next to an episode that has a video id selects that
\* episode, as a ByIds token and as both ends of a range (the episode not
\* being in the ledger).
C9_ListedIndexSelects ==
    \A i \in 1..Len(listing) :
        LET k == listing[i][1]
            shown == [bvid |-> listing[i][2], title |-> listing[i][3]]
            Selected == /\ Len(videos) = 1
                        /\ videos[1].bvid = shown.bvid
                        /\ videos[1].title = shown.title
        IN  shown.bvid # "" =>
              /\ (choice = "2" /\ tokens = <<Numeral[k]>> => Selected)
              /\ (choice = "3" /\ TypedRange(k, k) /\ shown.bvid \notin selLedger
                      => Selected)

-----------------------------------------------------------------------------
(* The ledger and the loop of process_video *)

\* C5: a save that leaves a readable ledger file keeps every video id the
\* persisted ledger of that collection held before it.
C5_LedgerOnlyGrows ==
    [][\A c \in Cids :
           ledgerFile'[c] # ledgerFile[c] /\ ledgerFile'[c].state = "ok"
               => Persisted(c) \subseteq ledgerFile'[c].ids]_vars

\* The display titles an episode directory can carry.
KnownTitles == { DisplayTitle(e) : e \in EpisodePool } \cup { v.title : v \in SingleVideos }

\* A completed transcript of video id b is on disk.
Transcribed(b) ==
    \E t \in KnownTitles :
        LET path == OutputPath([title |-> t, bvid |-> b])
        IN  path \in DOMAIN transcripts /\ transcripts[path] = "complete"

\* C6: every video id in the persisted ledger of a collection has a completed
\* transcript on disk.
C6_LedgerImpliesTranscript ==
    \A c \in Cids : \A b \in Persisted(c) : Transcribed(b)

\* A ledger of two ids, written over two runs, while a later episode failed.
C6_Witness ==
    /\ \E c \in Cids : Cardinality(Persisted(c)) = 2
    /\ runs = 2
    /\ "download" \in faults

\* C7: when the only failures of a run are failures of the download or of the
\* audio extraction, the failed episodes are skipped and the loop goes on:
\* when the run has ended, every selected episode has been attempted.
C7_AcquisitionFailureSkips ==
    pc \in {"done", "crashed"} /\ faults # {} /\ faults \subseteq {"download", "extract"}
        => attempted = 1..Len(videos)

\* C8: in a run on a collection in which no stage and no ledger access failed,
\* every episode transcribed in this run is in the persisted ledger of the
\* collection the selection read, before the next episode starts.
C8_TranscribedIsSaved ==
    pc \in {"loop", "done"} /\ data # NoData /\ faults = {}
        => transcribedNow \subseteq Persisted(data.bvid)

\* C10: a run on a collection that returns normally, with the ledger of the
\* collection loaded and no failure, leaves in the persisted ledger the video
\* id of every selected episode whose completed transcript is on disk.
C10_ResumeRecordsTranscribed ==
    pc = "done" /\ data # NoData /\ collection_id = data.bvid /\ faults = {}
        => \A i \in 1..Len(videos) :
               (OutputPath(videos[i]) \in DOMAIN transcripts
                   /\ transcripts[OutputPath(videos[i])] = "complete")
               => videos[i].bvid \in Persisted(data.bvid)

=============================================================================
